---- MODULE Spec2Model ----
(***************************************************************************)
(* A model of the hybridtfidf package: the HybridTfidf class (the package  *)
(* variant src/hybridtfidf/__init__.py, the module variant                 *)
(* src/hybridtfidf/hybridtfidf.py and the earlier class src/hybridtfidf.py)*)
(* and the function select_salient_posts (src/hybridtfidf/utils.py and     *)
(* src/hybridtfidf/hybridtfidf.py).                                        *)
(*                                                                         *)
(* A Python str is a sequence of one-character strings.  A Python float is *)
(* kept exact: a term weight tf * log2(idf) is a rational combination of   *)
(* the logarithms log2(p), p prime, which are linearly independent over    *)
(* the rationals, so equality and sign are decided exactly (rounding of    *)
(* IEEE doubles is not modelled).  An instance is a function from the      *)
(* names of the attributes it has to their values: reading a name outside  *)
(* its domain is Python's AttributeError.  A dict is the sequence of its   *)
(* <<key, value>> items in insertion order.                                *)
(***************************************************************************)
EXTENDS Integers, Sequences, FiniteSets, TLC

VARIABLES variant, self, fit_calls, last

vars == <<variant, self, fit_calls, last>>

\* ---- bounds of the model ------------------------------------------------

\* longest document, in characters
MaxStrLen == 2
\* most documents in one list passed to fit or fit_transform
MaxDocs == 2
\* most calls of fit (fit_transform included) on one instance
MaxFits == 2
\* most documents in one list passed to transform or transform_to_weights
MaxBatch == 2
\* the threshold a caller passes explicitly to a constructor or a query
ExplicitThreshold == 1

\* ---- program constants --------------------------------------------------

\* HybridTfidf.__init__(self, threshold=5)
CtorDefaultThreshold == 5
\* HybridTfidf.post_weight(self, post, threshold=6)
PostWeightDefaultThreshold == 6

\* ---- Python values ------------------------------------------------------

Alphabet == {"a", " "}

Strings == UNION {[1..n -> Alphabet] : n \in 0..MaxStrLen}

DocLists == UNION {[1..n -> Strings] : n \in 0..MaxDocs}

Batches == UNION {[1..n -> Strings] : n \in 0..MaxBatch}

Thresholds == {ExplicitThreshold}

\* an optional argument: <<>> when the caller omits it, <<v>> when given
OptionalThresholds == {<<>>} \cup {<<t>> : t \in Thresholds}

Variants == {"__init__", "hybridtfidf"}

Max(a, b) == IF a >= b THEN a ELSE b

Range(s) == {s[i] : i \in 1..Len(s)}

\* str.split(' '): the pieces between single spaces, empty pieces kept, so
\* ''.split(' ') is [''] and every str has at least one token
RECURSIVE Split(_)
Split(s) ==
    IF \E i \in 1..Len(s) : s[i] = " "
    THEN LET i == CHOOSE j \in 1..Len(s) :
                      s[j] = " " /\ \A h \in 1..(j - 1) : s[h] # " "
         IN  <<SubSeq(s, 1, i - 1)>> \o Split(SubSeq(s, i + 1, Len(s)))
    ELSE <<s>>

\* ---- dict: insertion-ordered items --------------------------------------

DictKeys(d) == [i \in 1..Len(d) |-> d[i][1]]

DictHas(d, k) == \E i \in 1..Len(d) : d[i][1] = k

DictGet(d, k) == d[CHOOSE i \in 1..Len(d) : d[i][1] = k][2]

\* d[k] = v: a present key keeps its position, a new key goes last
DictSet(d, k, v) ==
    IF DictHas(d, k)
    THEN [i \in 1..Len(d) |-> IF d[i][1] = k THEN <<k, v>> ELSE d[i]]
    ELSE Append(d, <<k, v>>)

RECURSIVE SumValues(_)
SumValues(d) == IF d = <<>> THEN 0 ELSE d[1][2] + SumValues(Tail(d))

\* ---- exact numbers ------------------------------------------------------

Abs(x) == IF x < 0 THEN 0 - x ELSE x

RECURSIVE Gcd(_, _)
Gcd(a, b) == IF b = 0 THEN Abs(a) ELSE Gcd(b, a % b)

Lcm(a, b) == (a * b) \div Gcd(a, b)

\* a rational <<n, d>> in lowest terms, d > 0
Rat(n, d) ==
    LET g == Gcd(n, d)
        s == IF d < 0 THEN 0 - 1 ELSE 1
    IN  <<(s * n) \div g, (s * d) \div g>>

RatAdd(x, y) == Rat(x[1] * y[2] + y[1] * x[2], x[2] * y[2])

RatMul(x, y) == Rat(x[1] * y[1], x[2] * y[2])

\* the largest integer whose logarithm the model takes
MaxCount == MaxDocs * MaxFits

Primes == {p \in 2..Max(2, MaxCount) : \A q \in 2..(p - 1) : p % q # 0}

\* the exponent of the prime p in n >= 1
RECURSIVE Valuation(_, _)
Valuation(p, n) == IF n % p = 0 THEN 1 + Valuation(p, n \div p) ELSE 0

\* a float: the sum over the primes p of x[p] * log2(p)
FloatZero == [p \in Primes |-> <<0, 1>>]

\* math.log(float(n) / float(d), 2) for n, d >= 1
Log2Quotient(n, d) == [p \in Primes |-> Rat(Valuation(p, n) - Valuation(p, d), 1)]

FloatScale(r, x) == [p \in Primes |-> RatMul(r, x[p])]

FloatAdd(x, y) == [p \in Primes |-> RatAdd(x[p], y[p])]

RECURSIVE Power(_, _)
Power(b, e) == IF e = 0 THEN 1 ELSE b * Power(b, e - 1)

RECURSIVE LcmOf(_)
LcmOf(S) == IF S = {} THEN 1
            ELSE LET x == CHOOSE y \in S : TRUE IN Lcm(x, LcmOf(S \ {x}))

RECURSIVE GcdOf(_)
GcdOf(S) == IF S = {} THEN 0
            ELSE LET x == CHOOSE y \in S : TRUE IN Gcd(x, GcdOf(S \ {x}))

RECURSIVE ProductOf(_, _)
ProductOf(S, f) == IF S = {} THEN 1
                   ELSE LET x == CHOOSE y \in S : TRUE
                        IN  f[x] * ProductOf(S \ {x}, f)

\* x < 0.0: with integer exponents e[p] in the ratio of the x[p], x is the
\* logarithm of the product of p^e[p], negative when that product is below 1
FloatIsNegative(x) ==
    LET l == LcmOf({x[p][2] : p \in Primes})
        n == [p \in Primes |-> x[p][1] * (l \div x[p][2])]
        g == GcdOf({n[p] : p \in Primes})
        e == [p \in Primes |-> IF g = 0 THEN 0 ELSE n[p] \div g]
        up == ProductOf({p \in Primes : e[p] > 0}, [p \in Primes |-> Power(p, Abs(e[p]))])
        dn == ProductOf({p \in Primes : e[p] < 0}, [p \in Primes |-> Power(p, Abs(e[p]))])
    IN  up < dn

\* ---- instances and call results ------------------------------------------

HasAttr(obj, name) == name \in DOMAIN obj

\* obj.name = value
SetAttr(obj, name, value) ==
    [n \in DOMAIN obj \cup {name} |-> IF n = name THEN value ELSE obj[n]]

Return(v) == [outcome |-> "return", value |-> v]

Raise(e) == [outcome |-> e, value |-> <<>>]

\* Python's None as a returned value
None == "None"

\* HybridTfidf.__init__: the package variant creates the two count dicts
\* here, the module variant creates them in fit
HybridTfidf(v, threshold) ==
    IF v = "__init__"
    THEN [n \in {"_corpus_word_freqs", "_num_posts_containing_words",
                 "_isfit", "_threshold"} |->
            CASE n = "_corpus_word_freqs" -> <<>>
              [] n = "_num_posts_containing_words" -> <<>>
              [] n = "_isfit" -> FALSE
              [] n = "_threshold" -> threshold]
    ELSE [n \in {"_isfit", "_threshold"} |->
            IF n = "_isfit" THEN FALSE ELSE threshold]

\* ---- HybridTfidf: fitting -----------------------------------------------

\* the inner loop of _wordcounts over doc.split(' '): the try adds one to a
\* present key, the except sets a missing key to 1
RECURSIVE CountWords(_, _)
CountWords(freqs, words) ==
    IF words = <<>> THEN freqs
    ELSE LET w == Head(words)
         IN  CountWords(DictSet(freqs, w, IF DictHas(freqs, w)
                                          THEN DictGet(freqs, w) + 1 ELSE 1),
                        Tail(words))

\* the loop of _wordcounts over seen_words, a set: each word of the document
\* once.  The order in which a set is iterated decides only the insertion
\* order of _num_posts_containing_words, which nothing reads: the items are
\* added here in the order of first occurrence in the document.
RECURSIVE CountPosts(_, _, _)
CountPosts(posts, words, seen) ==
    IF words = <<>> THEN posts
    ELSE LET w == Head(words)
         IN  IF w \in seen THEN CountPosts(posts, Tail(words), seen)
             ELSE CountPosts(DictSet(posts, w, IF DictHas(posts, w)
                                               THEN DictGet(posts, w) + 1 ELSE 1),
                             Tail(words), seen \cup {w})

RECURSIVE _wordcounts(_, _)
_wordcounts(obj, docs) ==
    IF docs = <<>> THEN obj
    ELSE LET words == Split(Head(docs))
             o1 == SetAttr(obj, "_corpus_word_freqs",
                           CountWords(obj["_corpus_word_freqs"], words))
             o2 == SetAttr(o1, "_num_posts_containing_words",
                           CountPosts(o1["_num_posts_containing_words"], words, {}))
         IN  _wordcounts(o2, Tail(docs))

\* float(a) / float(b)
_tf(obj, word) ==
    IF obj["_corpus_total_word_count"] = 0 THEN Raise("ZeroDivisionError")
    ELSE Return(Rat(DictGet(obj["_corpus_word_freqs"], word),
                    obj["_corpus_total_word_count"]))

_idf(obj, word) ==
    IF ~DictHas(obj["_num_posts_containing_words"], word) THEN Raise("KeyError")
    ELSE IF DictGet(obj["_num_posts_containing_words"], word) = 0
    THEN Raise("ZeroDivisionError")
    ELSE Return(<<obj["_post_count"], DictGet(obj["_num_posts_containing_words"], word)>>)

\* self._tf(word) * math.log(self._idf(word), 2): math.log of 0.0 raises
\* ValueError
_tfidf_word_weight(obj, word) ==
    LET tf == _tf(obj, word)
        idf == _idf(obj, word)
    IN  IF tf.outcome # "return" THEN tf
        ELSE IF idf.outcome # "return" THEN idf
        ELSE IF idf.value[1] = 0 THEN Raise("ValueError")
        ELSE Return(FloatScale(tf.value, Log2Quotient(idf.value[1], idf.value[2])))

\* _corpus_all_words is the live view keys() of the dict _corpus_word_freqs
\* (no statement puts another dict in _corpus_word_freqs and then reads the
\* view before assigning it again)
CorpusAllWords(obj) == DictKeys(obj["_corpus_word_freqs"])

RECURSIVE AllTfidfsFrom(_, _, _)
AllTfidfsFrom(obj, words, acc) ==
    IF words = <<>> THEN Return(acc)
    ELSE LET w == _tfidf_word_weight(obj, Head(words))
         IN  IF w.outcome # "return" THEN w
             ELSE AllTfidfsFrom(obj, Tail(words), DictSet(acc, Head(words), w.value))

_all_tfidfs(obj) == AllTfidfsFrom(obj, CorpusAllWords(obj), <<>>)

\* HybridTfidf.fit: the instance as the call leaves it and how the call ends.
\* The module variant puts fresh dicts in place before counting, the package
\* variant keeps counting into the dicts of __init__.
fit(v, obj, raw_documents) ==
    LET o1 == SetAttr(obj, "_post_count", Len(raw_documents))
        o2 == IF v = "hybridtfidf"
              THEN SetAttr(SetAttr(o1, "_num_posts_containing_words", <<>>),
                           "_corpus_word_freqs", <<>>)
              ELSE o1
        o3 == SetAttr(o2, "_raw_documents", raw_documents)
        o4 == _wordcounts(o3, raw_documents)
        o5 == SetAttr(o4, "_corpus_total_word_count",
                      SumValues(o4["_corpus_word_freqs"]))
        o6 == SetAttr(o5, "_corpus_all_words", "keys")
        tfidfs == _all_tfidfs(o6)
    IN  IF tfidfs.outcome # "return"
        THEN [obj |-> o6, outcome |-> tfidfs.outcome, value |-> <<>>]
        ELSE [obj |-> SetAttr(SetAttr(o6, "corpus_tfidfs", tfidfs.value),
                              "_isfit", TRUE),
              outcome |-> "return", value |-> None]

\* ---- HybridTfidf: queries -----------------------------------------------

_nf(post, threshold) == Max(threshold, Len(post))

\* post_vector were it strict like post_weight: a token outside the vocabulary
\* is looked up and raises KeyError
post_vector_strict(obj, post, threshold) ==
    LET thr == IF threshold = <<>> THEN obj["_threshold"] ELSE threshold[1]
        splitpost == Split(post)
        normalisation_factor == _nf(splitpost, thr)
    IN  IF ~HasAttr(obj, "corpus_tfidfs") THEN Raise("AttributeError")
        ELSE LET items == obj["corpus_tfidfs"]
             IN  IF \E w \in Range(splitpost) : ~DictHas(items, w)
                 THEN Raise("KeyError")
                 ELSE Return([i \in 1..Len(items) |->
                                 IF items[i][1] \in Range(splitpost)
                                 THEN FloatScale(Rat(1, normalisation_factor), items[i][2])
                                 ELSE FloatZero])

\* HybridTfidf.post_vector(post, threshold=None)
post_vector(obj, post, threshold) ==
    LET thr == IF threshold = <<>> THEN obj["_threshold"] ELSE threshold[1]
        splitpost == Split(post)
        normalisation_factor == _nf(splitpost, thr)
    IN  IF ~HasAttr(obj, "corpus_tfidfs") THEN Raise("AttributeError")
        ELSE LET items == obj["corpus_tfidfs"]
             IN  Return([i \in 1..Len(items) |->
                            IF items[i][1] \in Range(splitpost)
                            THEN FloatScale(Rat(1, normalisation_factor), items[i][2])
                            ELSE FloatZero])

\* the loop of post_weight were it lenient like post_vector: a token outside
\* the vocabulary adds nothing
RECURSIVE WordWeightsSkipUnknown(_, _, _)
WordWeightsSkipUnknown(obj, words, acc) ==
    IF words = <<>> THEN Return(acc)
    ELSE IF ~HasAttr(obj, "corpus_tfidfs") THEN Raise("AttributeError")
    ELSE IF ~DictHas(obj["corpus_tfidfs"], Head(words))
    THEN WordWeightsSkipUnknown(obj, Tail(words), acc)
    ELSE WordWeightsSkipUnknown(obj, Tail(words),
                     FloatAdd(acc, DictGet(obj["corpus_tfidfs"], Head(words))))

\* the loop of post_weight over the words of the post: the lookup
\* self.corpus_tfidfs[word] raises for a missing attribute or key
RECURSIVE WordWeights(_, _, _)
WordWeights(obj, words, acc) ==
    IF words = <<>> THEN Return(acc)
    ELSE IF ~HasAttr(obj, "corpus_tfidfs") THEN Raise("AttributeError")
    ELSE IF ~DictHas(obj["corpus_tfidfs"], Head(words)) THEN Raise("KeyError")
    ELSE WordWeights(obj, Tail(words),
                     FloatAdd(acc, DictGet(obj["corpus_tfidfs"], Head(words))))

\* HybridTfidf.post_weight(post, threshold=6)
post_weight(obj, post, threshold) ==
    LET thr == IF threshold = <<>> THEN PostWeightDefaultThreshold ELSE threshold[1]
        words == Split(post)
        sum == WordWeights(obj, words, FloatZero)
    IN  IF sum.outcome # "return" THEN sum
        ELSE Return(FloatScale(Rat(1, _nf(words, thr)), sum.value))

RECURSIVE TransformFrom(_, _, _)
TransformFrom(obj, docs, acc) ==
    IF docs = <<>> THEN Return(acc)
    ELSE LET vec == post_vector(obj, Head(docs), <<obj["_threshold"]>>)
         IN  IF vec.outcome # "return" THEN vec
             ELSE TransformFrom(obj, Tail(docs), Append(acc, vec.value))

\* HybridTfidf.transform
transform(obj, raw_documents) == TransformFrom(obj, raw_documents, <<>>)

RECURSIVE TransformToWeightsFrom(_, _, _)
TransformToWeightsFrom(obj, docs, acc) ==
    IF docs = <<>> THEN Return(acc)
    ELSE LET w == post_weight(obj, Head(docs), <<obj["_threshold"]>>)
         IN  IF w.outcome # "return" THEN w
             ELSE TransformToWeightsFrom(obj, Tail(docs), Append(acc, w.value))

\* HybridTfidf.transform_to_weights
transform_to_weights(obj, raw_documents) ==
    TransformToWeightsFrom(obj, raw_documents, <<>>)

\* HybridTfidf.get_feature_names
get_feature_names(obj) ==
    IF ~HasAttr(obj, "_corpus_all_words") THEN Raise("AttributeError")
    ELSE Return(CorpusAllWords(obj))

\* HybridTfidf.fit_transform: fit, then transform of the stored documents,
\* whose result is dropped: the method has no return statement
fit_transform(v, obj, raw_documents) ==
    LET f == fit(v, obj, raw_documents)
    IN  IF f.outcome # "return" THEN f
        ELSE LET t == transform(f.obj, f.obj["_raw_documents"])
             IN  IF t.outcome # "return"
                 THEN [obj |-> f.obj, outcome |-> t.outcome, value |-> <<>>]
                 ELSE [obj |-> f.obj, outcome |-> "return", value |-> None]

\* ---- HybridTfidf of src/hybridtfidf.py -----------------------------------

\* the earlier class of the repository, fitted by its constructor; its
\* _wordcounts, _tf, _idf, tfidf_word_weight and _all_tfidfs are line for line
\* those of the package, and its weights are kept in _corpus_tfidfs

\* post_weight(self, post, threshold=6) and post_vector(self, post, threshold=6)
LegacyDefaultThreshold == 6

\* HybridTfidf.__init__(self, docs)
LegacyHybridTfidf(docs) ==
    LET o0 == [n \in {"_post_count", "_num_posts_containing_words",
                      "_corpus_word_freqs"} |->
                 IF n = "_post_count" THEN Len(docs) ELSE <<>>]
        o1 == _wordcounts(o0, docs)
        o2 == SetAttr(o1, "_corpus_total_word_count",
                      SumValues(o1["_corpus_word_freqs"]))
        o3 == SetAttr(o2, "_corpus_all_words", "keys")
        tfidfs == _all_tfidfs(o3)
    IN  IF tfidfs.outcome # "return"
        THEN [obj |-> o3, outcome |-> tfidfs.outcome, value |-> <<>>]
        ELSE [obj |-> SetAttr(SetAttr(o3, "_corpus_tfidfs", tfidfs.value),
                              "raw_docs", docs),
              outcome |-> "return", value |-> None]

\* the loop of post_weight over the words of the post
RECURSIVE LegacyWordWeights(_, _, _)
LegacyWordWeights(obj, words, acc) ==
    IF words = <<>> THEN Return(acc)
    ELSE IF ~DictHas(obj["_corpus_tfidfs"], Head(words)) THEN Raise("KeyError")
    ELSE LegacyWordWeights(obj, Tail(words),
                     FloatAdd(acc, DictGet(obj["_corpus_tfidfs"], Head(words))))

\* post_weight: post is rebound to post.split(' ') before _nf reads it
legacy_post_weight(obj, post, threshold) ==
    LET thr == IF threshold = <<>> THEN LegacyDefaultThreshold ELSE threshold[1]
        words == Split(post)
        sum == LegacyWordWeights(obj, words, FloatZero)
    IN  IF sum.outcome # "return" THEN sum
        ELSE Return(FloatScale(Rat(1, _nf(words, thr)), sum.value))

\* post_vector: _nf reads post, the str, before it is split, so len(post) is
\* the number of characters
legacy_post_vector(obj, post, threshold) ==
    LET thr == IF threshold = <<>> THEN LegacyDefaultThreshold ELSE threshold[1]
        normalisation_factor == _nf(post, thr)
        splitpost == Split(post)
        items == obj["_corpus_tfidfs"]
    IN  Return([i \in 1..Len(items) |->
                   IF items[i][1] \in Range(splitpost)
                   THEN FloatScale(Rat(1, normalisation_factor), items[i][2])
                   ELSE FloatZero])

RECURSIVE LegacyFitFrom(_, _, _, _)
LegacyFitFrom(obj, docs, threshold, acc) ==
    IF docs = <<>> THEN Return(acc)
    ELSE LET vec == legacy_post_vector(obj, Head(docs), <<threshold>>)
         IN  IF vec.outcome # "return" THEN vec
             ELSE LegacyFitFrom(obj, Tail(docs), threshold, Append(acc, vec.value))

\* fit(self, threshold): the vectors of the documents of the constructor
legacy_fit(obj, threshold) == LegacyFitFrom(obj, obj["raw_docs"], threshold, <<>>)

RECURSIVE LegacyFitWeightsFrom(_, _, _, _)
LegacyFitWeightsFrom(obj, docs, threshold, acc) ==
    IF docs = <<>> THEN Return(acc)
    ELSE LET w == legacy_post_weight(obj, Head(docs), <<threshold>>)
         IN  IF w.outcome # "return" THEN w
             ELSE LegacyFitWeightsFrom(obj, Tail(docs), threshold, Append(acc, w.value))

\* fit_weights(self, threshold)
legacy_fit_weights(obj, threshold) ==
    LegacyFitWeightsFrom(obj, obj["raw_docs"], threshold, <<>>)

\* ---- select_salient_posts ------------------------------------------------

\* most posts in one call of select_salient_posts
MaxPosts == 3
\* length of the vectors, and their coordinates are 0..MaxCoord
VecLen == 2
MaxCoord == 1
\* the weights are 1..MaxWeight
MaxWeight == 2
\* the largest explicit k
MaxK == 3
\* select_salient_posts(post_vectors, post_weights, k=10, similarity_threshold=0.4)
DefaultK == 10

DefaultSimilarityThreshold == <<2, 5>>

\* similarity thresholds, as rationals <<n, d>>
SimilarityThresholds == {<<0, 1>>, <<1, 2>>, <<1, 1>>}

Vectors == [1..VecLen -> 0..MaxCoord]

Modules == {"utils", "hybridtfidf"}

\* the names bound at module level when a module has been imported: utils.py
\* has no import statement and defines two functions; hybridtfidf.py imports
\* math, norm and dot and defines the class and the two functions
ModuleGlobals(m) ==
    IF m = "utils"
    THEN [n \in {"cosine_sim", "select_salient_posts"} |-> "function"]
    ELSE [n \in {"math", "norm", "dot", "HybridTfidf", "cosine_sim",
                 "select_salient_posts"} |->
            IF n = "math" THEN "module"
            ELSE IF n = "HybridTfidf" THEN "class" ELSE "function"]

\* reading the global name n in module m raises NameError when it is unbound
IsBound(m, n) == n \in DOMAIN ModuleGlobals(m)

RECURSIVE Dot(_, _)
Dot(a, b) == IF a = <<>> THEN 0 ELSE a[1] * b[1] + Dot(Tail(a), Tail(b))

\* cosine_sim: dot(vec1, vec2) / (norm(vec1) * norm(vec2)), kept as the dot
\* product and the squared product of the norms; numpy divides 0.0 by 0.0
\* to nan and does not raise
cosine_sim(m, vec1, vec2) ==
    IF ~IsBound(m, "dot") THEN [outcome |-> "NameError", value |-> "dot"]
    ELSE IF ~IsBound(m, "norm") THEN [outcome |-> "NameError", value |-> "norm"]
    ELSE Return([dot |-> Dot(vec1, vec2), sq |-> Dot(vec1, vec1) * Dot(vec2, vec2)])

IsNan(sim) == sim.sq = 0

\* sim >= t for t = <<n, d>>, d > 0: False for nan
SimAtLeast(sim, t) ==
    IF IsNan(sim) THEN FALSE
    ELSE IF t[1] >= 0
    THEN sim.dot >= 0 /\ t[2] * t[2] * sim.dot * sim.dot >= t[1] * t[1] * sim.sq
    ELSE sim.dot >= 0 \/ t[2] * t[2] * sim.dot * sim.dot <= t[1] * t[1] * sim.sq

\* sorted(zip(post_weights, enumerate(post_vectors)), key=lambda i: i[0],
\* reverse=True) without the weights: the <<index, vector>> pairs by weight
\* descending; sorted is stable also with reverse=True, so equal weights keep
\* the input order.  Indices count from 0.
RECURSIVE SortedKeyedVectors(_, _, _)
SortedKeyedVectors(post_vectors, post_weights, rest) ==
    IF rest = {} THEN <<>>
    ELSE LET top == CHOOSE x \in rest : \A y \in rest :
                        \/ post_weights[x] > post_weights[y]
                        \/ post_weights[x] = post_weights[y] /\ x <= y
         IN  <<(<<top - 1, post_vectors[top]>>)>>
                \o SortedKeyedVectors(post_vectors, post_weights, rest \ {top})

\* the for loop over significant_indices of one pass of the while loop: both
\* subscripts are evaluated, then cosine_sim is called, then sim is compared
\* with the global name sim_threshold
RECURSIVE ForSignificant(_, _, _, _, _)
ForSignificant(m, skv, i, js, is_similar) ==
    IF js = <<>> THEN Return(is_similar)
    ELSE IF i >= Len(skv) THEN [outcome |-> "IndexError", value |-> i]
    ELSE LET sim == cosine_sim(m, skv[Head(js) + 1][2], skv[i + 1][2])
         IN  IF sim.outcome # "return" THEN sim
             ELSE IF ~IsBound(m, "sim_threshold")
             THEN [outcome |-> "NameError", value |-> "sim_threshold"]
             ELSE ForSignificant(m, skv, i, Tail(js),
                      is_similar \/ SimAtLeast(sim.value, ModuleGlobals(m)["sim_threshold"]))

\* the while loop: the body runs before the exit test, and the exit test
\* reads i before i is advanced
RECURSIVE WhileLoop(_, _, _, _, _, _, _)
WhileLoop(m, skv, i, significant_indices, unsorted_indices, k, veclength) ==
    LET scan == ForSignificant(m, skv, i, significant_indices, FALSE)
    IN  IF scan.outcome # "return" THEN scan
        ELSE LET si == IF scan.value THEN significant_indices
                       ELSE Append(significant_indices, i)
                 ui == IF scan.value THEN unsorted_indices
                       ELSE Append(unsorted_indices, skv[i + 1][1])
             IN  IF Len(si) >= k \/ i >= veclength THEN Return(ui)
                 ELSE WhileLoop(m, skv, i + 1, si, ui, k, veclength)

\* select_salient_posts of module m; the body never reads the parameter
\* similarity_threshold
select_salient_posts(m, post_vectors, post_weights, k, similarity_threshold) ==
    LET skv == SortedKeyedVectors(post_vectors, post_weights,
                                  1..Len(post_vectors))
    IN  IF skv = <<>> THEN [outcome |-> "IndexError", value |-> 0]
        ELSE WhileLoop(m, skv, 1, <<0>>, <<skv[1][1]>>, k, Len(post_vectors))

\* ---- the state machine ---------------------------------------------------

\* what the last call was and how it ended
Call(op, args, r) == [op |-> op, args |-> args, outcome |-> r.outcome, value |-> r.value]

\* the caller has taken the result of its last call and makes the next one
Idle == [op |-> "idle", args |-> <<>>, outcome |-> "return", value |-> None]

\* an instance as its constructor leaves it
Init ==
    /\ variant \in Variants
    /\ \E t \in Thresholds \cup {CtorDefaultThreshold} :
          /\ self = HybridTfidf(variant, t)
          /\ last = Call("__init__", [threshold |-> t], Return(None))
    /\ fit_calls = 0

Fit ==
    /\ last.op = "idle"
    /\ fit_calls < MaxFits
    /\ \E raw_documents \in DocLists :
          LET r == fit(variant, self, raw_documents)
          IN  /\ self' = r.obj
              /\ last' = Call("fit", [raw_documents |-> raw_documents], r)
    /\ fit_calls' = fit_calls + 1
    /\ UNCHANGED variant

FitTransform ==
    /\ last.op = "idle"
    /\ fit_calls < MaxFits
    /\ \E raw_documents \in DocLists :
          LET r == fit_transform(variant, self, raw_documents)
          IN  /\ self' = r.obj
              /\ last' = Call("fit_transform", [raw_documents |-> raw_documents], r)
    /\ fit_calls' = fit_calls + 1
    /\ UNCHANGED variant

Transform ==
    /\ last.op = "idle"
    /\ \E raw_documents \in Batches :
          last' = Call("transform", [raw_documents |-> raw_documents],
                       transform(self, raw_documents))
    /\ UNCHANGED <<variant, self, fit_calls>>

TransformToWeights ==
    /\ last.op = "idle"
    /\ \E raw_documents \in Batches :
          last' = Call("transform_to_weights", [raw_documents |-> raw_documents],
                       transform_to_weights(self, raw_documents))
    /\ UNCHANGED <<variant, self, fit_calls>>

PostVector ==
    /\ last.op = "idle"
    /\ \E post \in Strings, threshold \in OptionalThresholds :
          last' = Call("post_vector", [post |-> post, threshold |-> threshold],
                       post_vector(self, post, threshold))
    /\ UNCHANGED <<variant, self, fit_calls>>

PostWeight ==
    /\ last.op = "idle"
    /\ \E post \in Strings, threshold \in OptionalThresholds :
          last' = Call("post_weight", [post |-> post, threshold |-> threshold],
                       post_weight(self, post, threshold))
    /\ UNCHANGED <<variant, self, fit_calls>>

GetFeatureNames ==
    /\ last.op = "idle"
    /\ last' = Call("get_feature_names", <<>>, get_feature_names(self))
    /\ UNCHANGED <<variant, self, fit_calls>>

\* the caller takes the result; the calls of one caller follow one another
Continue ==
    /\ last.op # "idle"
    /\ last' = Idle
    /\ UNCHANGED <<variant, self, fit_calls>>

Next ==
    \/ Fit
    \/ FitTransform
    \/ Transform
    \/ TransformToWeights
    \/ PostVector
    \/ PostWeight
    \/ GetFeatureNames
    \/ Continue

Spec == Init /\ [][Next]_vars

\* a call of the module-level function select_salient_posts
SelectSalientPosts ==
    /\ last.op = "idle"
    /\ \E m \in Modules, n \in 1..MaxPosts :
         \E post_vectors \in [1..n -> Vectors],
            post_weights \in [1..n -> 1..MaxWeight],
            k \in (1..MaxK) \cup {DefaultK},
            similarity_threshold \in
                SimilarityThresholds \cup {DefaultSimilarityThreshold} :
              last' = Call("select_salient_posts",
                           [module |-> m, post_vectors |-> post_vectors,
                            post_weights |-> post_weights, k |-> k,
                            similarity_threshold |-> similarity_threshold],
                           select_salient_posts(m, post_vectors, post_weights, k,
                                                similarity_threshold))
    /\ UNCHANGED <<variant, self, fit_calls>>

NextSelect ==
    \/ SelectSalientPosts
    \/ Continue

SpecSelect == Init /\ [][NextSelect]_vars

\* an instance of the class of src/hybridtfidf.py as its constructor leaves it
InitLegacy ==
    /\ variant = "legacy"
    /\ \E docs \in DocLists :
          LET r == LegacyHybridTfidf(docs)
          IN  /\ r.outcome = "return"
              /\ self = r.obj
              /\ last = Call("__init__", [docs |-> docs], Return(None))
    /\ fit_calls = 0

LegacyPostVector ==
    /\ last.op = "idle"
    /\ \E post \in Strings, threshold \in OptionalThresholds :
          last' = Call("post_vector", [post |-> post, threshold |-> threshold],
                       legacy_post_vector(self, post, threshold))
    /\ UNCHANGED <<variant, self, fit_calls>>

LegacyPostWeight ==
    /\ last.op = "idle"
    /\ \E post \in Strings, threshold \in OptionalThresholds :
          last' = Call("post_weight", [post |-> post, threshold |-> threshold],
                       legacy_post_weight(self, post, threshold))
    /\ UNCHANGED <<variant, self, fit_calls>>

LegacyFit ==
    /\ last.op = "idle"
    /\ \E threshold \in Thresholds \cup {LegacyDefaultThreshold} :
          last' = Call("fit", [threshold |-> threshold], legacy_fit(self, threshold))
    /\ UNCHANGED <<variant, self, fit_calls>>

LegacyFitWeights ==
    /\ last.op = "idle"
    /\ \E threshold \in Thresholds \cup {LegacyDefaultThreshold} :
          last' = Call("fit_weights", [threshold |-> threshold],
                       legacy_fit_weights(self, threshold))
    /\ UNCHANGED <<variant, self, fit_calls>>

NextLegacy ==
    \/ LegacyPostVector
    \/ LegacyPostWeight
    \/ LegacyFit
    \/ LegacyFitWeights
    \/ Continue

SpecLegacy == InitLegacy /\ [][NextLegacy]_vars

\* ---- select_salient_posts: the claims ------------------------------------

IsSelectCall == last.op = "select_salient_posts"

IsZeroVector(v) == \A i \in 1..Len(v) : v[i] = 0

\* C1: every call of select_salient_posts with as many weights as vectors, at
\* least one vector and k >= 1 (k = 1 included) returns a list of at most k
\* indices.
C1_AtMostK ==
    IsSelectCall =>
        /\ last.outcome = "return"
        /\ Len(last.value) <= last.args.k

\* C2: select_salient_posts never reads a rank position at or past
\* len(post_vectors): no call on valid input, a single document included, ends
\* in IndexError.
C2_NoReadPastEnd ==
    IsSelectCall => last.outcome # "IndexError"

\* C3: the list select_salient_posts returns is in original input order: its
\* indices are strictly ascending.
C3_OriginalOrder ==
    IsSelectCall =>
        /\ last.outcome = "return"
        /\ \A i, j \in 1..Len(last.value) : i < j => last.value[i] < last.value[j]

\* C4: any two distinct indices of the output of select_salient_posts have
\* vectors whose cosine similarity is strictly below the similarity_threshold
\* of the call.
C4_PairwiseBelowThreshold ==
    (IsSelectCall /\ \A i \in 1..Len(last.args.post_vectors) :
                        ~IsZeroVector(last.args.post_vectors[i])) =>
        /\ last.outcome = "return"
        /\ \A i, j \in 1..Len(last.value) :
              i # j =>
                ~SimAtLeast(cosine_sim("hybridtfidf",
                                       last.args.post_vectors[last.value[i] + 1],
                                       last.args.post_vectors[last.value[j] + 1]).value,
                            last.args.similarity_threshold)

\* C5: the cut-off select_salient_posts compares with is its own argument
\* similarity_threshold: on valid input with at least two non-zero vectors no
\* call ends in NameError, the error of reading a name that is not bound.
C5_ThresholdIsTheArgument ==
    (IsSelectCall /\ \E i, j \in 1..Len(last.args.post_vectors) :
                        /\ i # j
                        /\ ~IsZeroVector(last.args.post_vectors[i])
                        /\ ~IsZeroVector(last.args.post_vectors[j])) =>
        last.outcome # "NameError"

\* ---- HybridTfidf: the claims --------------------------------------------

QueryOps == {"transform", "transform_to_weights", "post_vector", "post_weight",
             "get_feature_names"}

\* the tokens of the fitted vocabulary, in the order of the vector axes
Vocabulary == DictKeys(self["corpus_tfidfs"])

\* C6: while the instance is Unfit every query (transform,
\* transform_to_weights, post_vector, post_weight, get_feature_names) fails
\* with a dedicated NotFitError and returns no value.
C6_UnfitQueryFails ==
    (last.op \in QueryOps /\ ~self["_isfit"]) => last.outcome = "NotFitError"

\* C7: fit called with a list of zero documents fails with EmptyCorpusError
\* and does not put the model into the Fit state.
C7_EmptyCorpusRejected ==
    (last.op = "fit" /\ last.args.raw_documents = <<>>) =>
        /\ last.outcome = "EmptyCorpusError"
        /\ ~self["_isfit"]

\* a document with a token outside the fitted vocabulary
HasUnknownToken(post) == \E w \in Range(Split(post)) : w \notin Range(Vocabulary)

\* C8: on a fitted model post_weight of a document with a token outside the
\* fitted vocabulary fails with the error of an unknown token (Python's
\* KeyError of the dict lookup) and returns no weight, and
\* transform_to_weights of a list holding such a document fails the same way.
C8_UnknownTokenFailsWeight ==
    /\ (last.op = "post_weight" /\ self["_isfit"] /\ HasUnknownToken(last.args.post))
          => last.outcome = "KeyError"
    /\ (/\ last.op = "transform_to_weights"
        /\ self["_isfit"]
        /\ \E i \in 1..Len(last.args.raw_documents) :
              HasUnknownToken(last.args.raw_documents[i]))
          => last.outcome = "KeyError"

C8_Witness ==
    /\ last.op = "post_weight"
    /\ self["_isfit"]
    /\ HasUnknownToken(last.args.post)
    /\ \E w \in Range(Split(last.args.post)) : w \in Range(Vocabulary)
    /\ last.outcome = "KeyError"

\* C9: on a fitted model post_vector of a document with tokens outside the
\* fitted vocabulary returns a vector of length |Vocabulary| whose coordinate
\* i is term_weight(t_i) / max(threshold, token count of the document) when
\* the vocabulary token t_i occurs in the document, and 0 otherwise.
C9_UnknownTokenIgnoredInVector ==
    (last.op = "post_vector" /\ self["_isfit"] /\ HasUnknownToken(last.args.post)) =>
        LET tokens == Split(last.args.post)
            thr == IF last.args.threshold = <<>> THEN self["_threshold"]
                   ELSE last.args.threshold[1]
            factor == IF Len(tokens) > thr THEN Len(tokens) ELSE thr
        IN  /\ last.outcome = "return"
            /\ Len(last.value) = Len(Vocabulary)
            /\ Len(last.value) = Len(CorpusAllWords(self))
            /\ \A i \in 1..Len(Vocabulary) :
                  last.value[i] =
                      IF \E n \in 1..Len(tokens) : tokens[n] = Vocabulary[i]
                      THEN FloatScale(<<1, factor>>, self["corpus_tfidfs"][i][2])
                      ELSE FloatZero

\* a document with an unknown token and a known token of non-zero weight, and
\* more tokens than the threshold
C9_Witness ==
    /\ last.op = "post_vector"
    /\ self["_isfit"]
    /\ HasUnknownToken(last.args.post)
    /\ last.outcome = "return"
    /\ \E i \in 1..Len(last.value) : last.value[i] # FloatZero
    /\ last.args.threshold # <<>>
    /\ Len(Split(last.args.post)) > last.args.threshold[1]

\* C10: after any sequence of fit calls on one instance every vocabulary token
\* has documents_containing(token) <= document_count, that is idf >= 1, and a
\* term weight >= 0.  Stated of the states a returning fit leaves.
C10_IdfAtLeastOne ==
    (last.op = "fit" /\ last.outcome = "return") =>
        /\ \A i \in 1..Len(self["_num_posts_containing_words"]) :
              self["_num_posts_containing_words"][i][2] <= self["_post_count"]
        /\ \A i \in 1..Len(self["corpus_tfidfs"]) :
              ~FloatIsNegative(self["corpus_tfidfs"][i][2])

\* ---- normalisation, round trip, fit_transform ----------------------------

\* the stored term weights of the instance, as <<token, weight>> items
TermWeights ==
    IF variant = "legacy" THEN self["_corpus_tfidfs"] ELSE self["corpus_tfidfs"]

\* the sum of the term weights of a sequence of vocabulary tokens
RECURSIVE TokenWeightSum(_, _)
TokenWeightSum(weights, tokens) ==
    IF tokens = <<>> THEN FloatZero
    ELSE FloatAdd(DictGet(weights, Head(tokens)),
                  TokenWeightSum(weights, Tail(tokens)))

\* C11: for every document and threshold the normalization factor of both
\* post_vector and post_weight is max(threshold, number of tokens of the
\* document): the threshold for a document with fewer tokens, the token count
\* otherwise, in every variant of HybridTfidf.  Stated of the value a call
\* with an explicit threshold returns: each coordinate of a present token is
\* its term weight over that factor, the weight is the token sum over it.
C11_NormalisationFactor ==
    (/\ last.op \in {"post_vector", "post_weight"}
     /\ last.outcome = "return"
     /\ last.args.threshold # <<>>) =>
        LET tokens == Split(last.args.post)
            thr == last.args.threshold[1]
            factor == IF Len(tokens) < thr THEN thr ELSE Len(tokens)
        IN  IF last.op = "post_vector"
            THEN \A i \in 1..Len(TermWeights) :
                    last.value[i] =
                        IF TermWeights[i][1] \in Range(tokens)
                        THEN FloatScale(<<1, factor>>, TermWeights[i][2])
                        ELSE FloatZero
            ELSE last.value = FloatScale(<<1, factor>>,
                                         TokenWeightSum(TermWeights, tokens))

\* the sum of the coordinates of a vector
RECURSIVE FloatSum(_)
FloatSum(vec) ==
    IF vec = <<>> THEN FloatZero ELSE FloatAdd(Head(vec), FloatSum(Tail(vec)))

\* C12: for every fitted corpus and every document of it, documents with
\* repeated tokens included, the sum of the coordinates of the vector
\* transform gives for the document equals the weight transform_to_weights
\* gives for it (both use the threshold of the instance).
C12_VectorSumIsWeight ==
    (/\ last.op = "transform_to_weights"
     /\ last.outcome = "return"
     /\ self["_isfit"]
     /\ \A i \in 1..Len(last.args.raw_documents) :
           last.args.raw_documents[i] \in Range(self["_raw_documents"])) =>
        LET vectors == transform(self, last.args.raw_documents)
        IN  /\ vectors.outcome = "return"
            /\ \A i \in 1..Len(last.args.raw_documents) :
                  FloatSum(vectors.value[i]) = last.value[i]

\* C13: fit_transform(raw_documents) is equivalent to fit(raw_documents)
\* followed by transform(raw_documents): it leaves the instance in the state
\* fit leaves it in (compared here on an instance fresh from its constructor)
\* and returns the list of vectors transform returns.  Stated of the calls
\* with at least one document.
C13_FitTransformIsFitThenTransform ==
    (/\ last.op = "fit_transform"
     /\ last.outcome = "return"
     /\ last.args.raw_documents # <<>>) =>
        /\ fit_calls = 1 =>
              self = fit(variant, HybridTfidf(variant, self["_threshold"]),
                         last.args.raw_documents).obj
        /\ last.value # None
        /\ last.value = transform(self, last.args.raw_documents).value

\* ---- vocabulary and statistics --------------------------------------------

\* the tokens of a list of documents, in document order
RECURSIVE AllTokens(_)
AllTokens(docs) ==
    IF docs = <<>> THEN <<>> ELSE Split(Head(docs)) \o AllTokens(Tail(docs))

\* the distinct tokens of a token sequence in the order of first occurrence
RECURSIVE FirstSeen(_, _)
FirstSeen(tokens, acc) ==
    IF tokens = <<>> THEN acc
    ELSE FirstSeen(Tail(tokens), IF Head(tokens) \in Range(acc) THEN acc
                                 ELSE Append(acc, Head(tokens)))

\* the vocabulary of the corpus the instance was last fitted on
FittedVocabulary(obj) == FirstSeen(AllTokens(obj["_raw_documents"]), <<>>)

\* a query returns on an instance fitted on at least one document
QueryStep ==
    /\ last'.op \in QueryOps
    /\ last'.outcome = "return"
    /\ self["_isfit"]
    /\ self["_raw_documents"] # <<>>

\* C14: after fit, under any sequence of queries (transform,
\* transform_to_weights, post_vector, post_weight, get_feature_names) on any
\* documents, every vector produced has length equal to the size of the
\* vocabulary computed at fit time, its axes are the tokens of the fitted
\* corpus in first-seen order, which is the list get_feature_names returns,
\* and no query changes the vocabulary or the stored statistics.  Every step
\* of the program changes last.op, so the formula speaks of every step.
C14_VectorsKeepVocabulary ==
    [][QueryStep =>
          /\ self' = self
          /\ DictKeys(self["corpus_tfidfs"]) = FittedVocabulary(self)
          /\ last'.op = "get_feature_names" =>
                last'.value = FittedVocabulary(self)
          /\ last'.op = "post_vector" =>
                Len(last'.value) = Len(FittedVocabulary(self))
          /\ last'.op = "transform" =>
                \A i \in 1..Len(last'.value) :
                    Len(last'.value[i]) = Len(FittedVocabulary(self))]_(last.op)

\* the instance is fitted on at least one document
FittedOnDocuments == self["_isfit"] /\ self["_raw_documents"] # <<>>

\* C15: after fit every token that occurs in every document of the fitted
\* corpus has term weight exactly 0, whatever its frequency; for a corpus of
\* one document every term weight is 0 and the vector of that document is all
\* zeros, of length the vocabulary size.
C15_UbiquitousTokenWeighsNothing ==
    /\ FittedOnDocuments =>
          \A i \in 1..Len(self["corpus_tfidfs"]) :
              (\A d \in 1..Len(self["_raw_documents"]) :
                  self["corpus_tfidfs"][i][1]
                      \in Range(Split(self["_raw_documents"][d])))
                => self["corpus_tfidfs"][i][2] = FloatZero
    /\ (/\ FittedOnDocuments
        /\ last.op = "post_vector"
        /\ last.outcome = "return"
        /\ self["_raw_documents"] = <<last.args.post>>) =>
          /\ Len(last.value) = Len(FittedVocabulary(self))
          /\ \A i \in 1..Len(last.value) : last.value[i] = FloatZero

\* ---- select_salient_posts: the walk ---------------------------------------

\* the vectors of the last call ranked as the function ranks them
RankedVectors ==
    SortedKeyedVectors(last.args.post_vectors, last.args.post_weights,
                       1..Len(last.args.post_vectors))

\* the cosine similarity of two vectors is at least t
Similar(vec1, vec2, t) ==
    SimAtLeast([dot |-> Dot(vec1, vec2), sq |-> Dot(vec1, vec1) * Dot(vec2, vec2)], t)

\* the rank positions (from 1) a walk accepts from position i on: while fewer
\* than k are accepted and positions remain, the next position is accepted
\* exactly when it is similar to no accepted one
RECURSIVE AcceptedRanks(_, _, _, _, _)
AcceptedRanks(ranked, i, accepted, k, t) ==
    IF Len(accepted) >= k \/ i > Len(ranked) THEN accepted
    ELSE LET similar == \E j \in Range(accepted) :
                           Similar(ranked[j][2], ranked[i][2], t)
         IN  AcceptedRanks(ranked, i + 1,
                           IF similar THEN accepted ELSE Append(accepted, i), k, t)

\* C16: while fewer than k documents are selected and candidates remain,
\* select_salient_posts examines the candidates one by one in descending
\* weight rank order, none skipped, and accepts each exactly when its cosine
\* similarity to every already selected document is strictly below the
\* threshold of the call (a similarity equal to the threshold rejects): the
\* call returns the indices of exactly the documents such a walk accepts.
\* Stated of the calls with at least two documents, none a zero vector.
C16_WalkAcceptsBelowThreshold ==
    (/\ IsSelectCall
     /\ Len(last.args.post_vectors) >= 2
     /\ \A i \in 1..Len(last.args.post_vectors) :
           ~IsZeroVector(last.args.post_vectors[i])) =>
        /\ last.outcome = "return"
        /\ Range(last.value) =
              {RankedVectors[r][1] :
                  r \in Range(AcceptedRanks(RankedVectors, 2, <<1>>, last.args.k,
                                            last.args.similarity_threshold))}

\* C17: select_salient_posts ranks the documents by weight descending, equal
\* weights by original index ascending, and the document ranked first (the
\* greatest weight, the lowest index among ties) is in the output of every
\* call, whatever the similarity threshold and the vectors.
C17_TopRankedAlwaysSelected ==
    IsSelectCall =>
        LET w == last.args.post_weights
            top == CHOOSE x \in 1..Len(w) :
                      \A y \in 1..Len(w) : w[x] > w[y] \/ (w[x] = w[y] /\ x <= y)
        IN  /\ \A i, j \in 1..Len(RankedVectors) :
                  i < j =>
                    \/ w[RankedVectors[i][1] + 1] > w[RankedVectors[j][1] + 1]
                    \/ /\ w[RankedVectors[i][1] + 1] = w[RankedVectors[j][1] + 1]
                       /\ RankedVectors[i][1] < RankedVectors[j][1]
            /\ last.outcome = "return"
            /\ (top - 1) \in Range(last.value)

\* ---- statistics of a fit, threshold of an instance ------------------------

\* how many times t occurs in a token sequence
Occurrences(tokens, t) == Cardinality({i \in 1..Len(tokens) : tokens[i] = t})

\* C18: in every state a completed fit(D) leaves, also when fit was called
\* before on the same instance with another corpus, the stored statistics are
\* those of D alone: the document count is len(D), the occurrence count of a
\* token is the number of its occurrences in D (repeats in a document counted
\* each time), its presence count is the number of documents of D holding it
\* (once per document), and the vocabulary is the set of tokens of D.
C18_StatisticsOfLastCorpus ==
    (last.op = "fit" /\ last.outcome = "return") =>
        LET D == last.args.raw_documents
        IN  /\ self["_post_count"] = Len(D)
            /\ Range(DictKeys(self["_corpus_word_freqs"])) = Range(AllTokens(D))
            /\ Range(DictKeys(self["_num_posts_containing_words"])) = Range(AllTokens(D))
            /\ Range(DictKeys(self["corpus_tfidfs"])) = Range(AllTokens(D))
            /\ \A t \in Range(AllTokens(D)) :
                  /\ DictGet(self["_corpus_word_freqs"], t) = Occurrences(AllTokens(D), t)
                  /\ DictGet(self["_num_posts_containing_words"], t) =
                        Cardinality({d \in 1..Len(D) : t \in Range(Split(D[d]))})

\* the value the weight path owes for a document under threshold T
WeightUnder(post, T) ==
    FloatScale(<<1, Max(T, Len(Split(post)))>>,
               TokenWeightSum(self["corpus_tfidfs"], Split(post)))

\* the value the vector path owes for a document under threshold T
VectorUnder(post, T) ==
    [i \in 1..Len(self["corpus_tfidfs"]) |->
        IF self["corpus_tfidfs"][i][1] \in Range(Split(post))
        THEN FloatScale(<<1, Max(T, Len(Split(post)))>>, self["corpus_tfidfs"][i][2])
        ELSE FloatZero]

\* C19: on an instance constructed with threshold T every weighting and
\* vectorizing operation called without an explicit threshold normalises with
\* T: post_weight(doc) and post_vector(doc) use the factor max(T, token count),
\* the one transform_to_weights and transform use.
C19_OneThresholdPerInstance ==
    (/\ last.op \in {"post_weight", "post_vector", "transform_to_weights", "transform"}
     /\ last.outcome = "return"
     /\ self["_isfit"]) =>
        LET T == self["_threshold"]
        IN  CASE last.op = "post_weight" ->
                   last.args.threshold = <<>> =>
                       last.value = WeightUnder(last.args.post, T)
              [] last.op = "post_vector" ->
                   last.args.threshold = <<>> =>
                       last.value = VectorUnder(last.args.post, T)
              [] last.op = "transform_to_weights" ->
                   \A i \in 1..Len(last.value) :
                       last.value[i] = WeightUnder(last.args.raw_documents[i], T)
              [] last.op = "transform" ->
                   \A i \in 1..Len(last.value) :
                       last.value[i] = VectorUnder(last.args.raw_documents[i], T)

====
